---- MODULE Spec2Model ----
(***************************************************************************)
(* dervy: #[derive(Entity)] generates PartialEq, Eq and Hash for a struct  *)
(* from the field annotated #[dervy(id)] (src/src/lib.rs).                 *)
(*                                                                         *)
(* Four specifications share this module:                                  *)
(*   SpecAttr  has_dervy_id_attribute applied to one attribute list        *)
(*   Spec      the compiler running derive_entity once per annotated type  *)
(*   SpecEq    the emitted eq and hash called on instances                 *)
(*   SpecMap   a HashMap keyed by instances of the generated type          *)
(***************************************************************************)
EXTENDS Naturals, Sequences, FiniteSets

VARIABLES
    attrs,      \* SpecAttr: the attribute list of one field
    matched,    \* SpecAttr: [done, value], the result of has_dervy_id_attribute
    inputs,     \* Spec: the DeriveInput of each invocation the compiler makes
    outcome,    \* Spec: per invocation, pending / panic / the emitted tokens
    entity,     \* SpecEq, SpecMap: [input, tokens], a struct and the impls derived for it
    idKind,     \* SpecEq, SpecMap: the type of the fields, which fixes their own == and hash
    objs,       \* SpecEq: three instances of the struct
    cmp,        \* SpecEq: [done, r], r[i][j] the result of objs[i] == objs[j]
    hs,         \* SpecEq: [done, r], r[i][s] the hasher state after objs[i].hash from state s
    seed,       \* SpecMap: the state every hasher of the map starts from
    map,        \* SpecMap: the buckets of the HashMap, each a sequence of [key, value]
    last        \* SpecMap: the last map call and what it returned

vars == <<attrs, matched, inputs, outcome, entity, idKind, objs, cmp, hs, seed, map, last>>

attrVars == <<attrs, matched>>
hostVars == <<inputs, outcome>>
runVars == <<entity, idKind>>
eqVars == <<objs, cmp, hs>>
mapVars == <<seed, map, last>>

----------------------------------------------------------------------------
(* Bounds *)

MaxAttrs == 3       \* attributes on the field SpecAttr scans
MaxFields == 2      \* fields of a type
MaxTypes == 2       \* derive invocations in one compilation
MaxVal == 2         \* field values of the instances SpecEq compares: 0..MaxVal
MaxKey == 1         \* field values of the instances SpecMap uses as keys: 0..MaxKey
HashMod == 3        \* hasher states: 0..HashMod-1
NumBuckets == 2     \* buckets of the HashMap

SeqsUpTo(S, n) == UNION {[1..k -> S] : k \in 0..n}

----------------------------------------------------------------------------
(* Attributes: a path, and an optional delimited token list *)

Tok(kind, text) == [kind |-> kind, text |-> text]

Attr(path, delim, tokens) == [path |-> path, delim |-> delim, tokens |-> tokens]

DervyId == Attr(<<"dervy">>, TRUE, <<Tok("ident", "id")>>)            \* #[dervy(id)]
DervyName == Attr(<<"dervy">>, TRUE, <<Tok("ident", "name")>>)        \* #[dervy(name)]
DervyBare == Attr(<<"dervy">>, FALSE, <<>>)                           \* #[dervy]
DervyEmpty == Attr(<<"dervy">>, TRUE, <<>>)                           \* #[dervy()]
DervyLit == Attr(<<"dervy">>, TRUE, <<Tok("lit", "id")>>)             \* #[dervy("id")]
DervyTwo == Attr(<<"dervy">>, TRUE,
                 <<Tok("ident", "id"), Tok("punct", ","), Tok("ident", "id")>>)  \* #[dervy(id, id)]
SerdeId == Attr(<<"serde">>, TRUE, <<Tok("ident", "id")>>)            \* #[serde(id)]
ToolSkip == Attr(<<"rustfmt", "skip">>, FALSE, <<>>)                  \* #[rustfmt::skip]

AttrKinds == {DervyId, DervyName, DervyBare, DervyEmpty, DervyLit, DervyTwo, SerdeId, ToolSkip}

(* Path::is_ident: a path of exactly one segment equal to the name *)
is_ident(path, name) == Len(path) = 1 /\ path[1] = name

(* Attribute::parse_args::<Ident>() followed by Result::into_iter: the       *)
(* sequence holding the identifier when the attribute is a delimited list    *)
(* of exactly one identifier token, the empty sequence on a parse error.     *)
(* Faulty variant: accepts a leading identifier and ignores the tokens after it *)
parse_args_Ident_first(attr) ==
    IF ~attr.delim THEN <<>>
    ELSE IF Len(attr.tokens) = 0 THEN <<>>
    ELSE IF attr.tokens[1].kind # "ident" THEN <<>>
    ELSE <<attr.tokens[1].text>>

parse_args_Ident(attr) ==
    IF ~attr.delim THEN <<>>
    ELSE IF Len(attr.tokens) = 0 THEN <<>>
    ELSE IF attr.tokens[1].kind # "ident" THEN <<>>
    ELSE IF Len(attr.tokens) > 1 THEN <<>>
    ELSE <<attr.tokens[1].text>>

has_dervy_id_attribute(as) ==
    \E i \in DOMAIN as :
        /\ is_ident(as[i].path, "dervy")
        /\ \E j \in DOMAIN parse_args_Ident(as[i]) : parse_args_Ident(as[i])[j] = "id"

----------------------------------------------------------------------------
(* Type definitions: syn::DeriveInput *)

FieldNames == <<"alpha", "beta", "gamma", "delta">>
TypeNames == {"A", "B"}

(* The attribute lists a field of a generated input carries *)
FieldAttrs ==
    SeqsUpTo(AttrKinds, 1) \cup {<<SerdeId, DervyId>>, <<DervyBare, DervyId>>, <<DervyId, DervyId>>}

NamedField(i, as) == [ident |-> <<FieldNames[i]>>, attrs |-> as]
UnnamedField(i, as) == [ident |-> <<>>, attrs |-> as]

NamedLists(choices, n) ==
    UNION {{[i \in 1..k |-> NamedField(i, c[i])] : c \in [1..k -> choices]} : k \in 0..n}

UnnamedLists(choices, n) ==
    UNION {{[i \in 1..k |-> UnnamedField(i, c[i])] : c \in [1..k -> choices]} : k \in 0..n}

Fields(style, list) == [style |-> style, list |-> list]

DataStruct(fields) == [kind |-> "Struct", fields |-> fields]
DataEnum(variants) == [kind |-> "Enum", variants |-> variants]
DataUnion(fields) == [kind |-> "Union", fields |-> fields]

DataOver(choices, n) ==
    {DataStruct(Fields("Named", l)) : l \in NamedLists(choices, n)}
    \cup {DataStruct(Fields("Unnamed", l)) : l \in UnnamedLists(choices, n)}
    \cup {DataStruct(Fields("Unit", <<>>))}
    \cup {DataEnum(<<[ident |-> "V", fields |-> Fields("Named", l)]>>) : l \in NamedLists(choices, n)}
    \cup {DataUnion(Fields("Named", l)) : l \in NamedLists(choices, n)}

DeriveInputs(choices, n) == [ident : TypeNames, data : DataOver(choices, n)]

(* The types of a compilation with several annotated types: each field is  *)
(* marked (m) or carries no attribute (u).                                 *)
m(i) == NamedField(i, <<DervyId>>)
u(i) == NamedField(i, <<>>)

CrateData ==
    {DataStruct(Fields("Named", l)) :
        l \in {<<>>, <<m(1)>>, <<u(1)>>, <<m(1), u(2)>>, <<m(1), m(2)>>, <<u(1), m(2)>>}}
    \cup {DataStruct(Fields("Unnamed", <<UnnamedField(1, <<DervyId>>)>>)),
          DataStruct(Fields("Unit", <<>>)),
          DataEnum(<<[ident |-> "V", fields |-> Fields("Named", <<m(1)>>)]>>),
          DataUnion(Fields("Named", <<m(1)>>))}

CrateInputs == [ident : TypeNames, data : CrateData]

----------------------------------------------------------------------------
(* derive_entity *)

PanicMsg == "No field with #[dervy(id)] attribute found"

unwrap(opt) == opt[1]

(* Faulty variant: the last matching field wins *)
RECURSIVE scan_named_last(_, _)
scan_named_last(named, i) ==
    IF i > Len(named) THEN <<>>
    ELSE IF scan_named_last(named, i + 1) # <<>> THEN scan_named_last(named, i + 1)
    ELSE IF has_dervy_id_attribute(named[i].attrs) THEN <<unwrap(named[i].ident)>>
    ELSE <<>>

RECURSIVE scan_named(_, _)
scan_named(named, i) ==
    IF i > Len(named) THEN <<>>
    ELSE IF has_dervy_id_attribute(named[i].attrs) THEN <<unwrap(named[i].ident)>>
    ELSE scan_named(named, i + 1)

(* Faulty variant: a union with named fields is scanned like a struct *)
find_id_field_any_data(data) ==
    IF data.kind \in {"Struct", "Union"}
    THEN IF data.fields.style = "Named"
         THEN scan_named(data.fields.list, 1)
         ELSE <<>>
    ELSE <<>>

(* Faulty variant: falls back to the first field when none matches *)
find_id_field_default(data) ==
    IF data.kind = "Struct"
    THEN IF data.fields.style = "Named"
         THEN IF scan_named(data.fields.list, 1) = <<>> /\ Len(data.fields.list) > 0
              THEN data.fields.list[1].ident
              ELSE scan_named(data.fields.list, 1)
         ELSE <<>>
    ELSE <<>>

(* The identifier returned, as a one-element sequence; <<>> for the panic *)
find_id_field(data) ==
    IF data.kind = "Struct"
    THEN IF data.fields.style = "Named"
         THEN scan_named(data.fields.list, 1)
         ELSE <<>>
    ELSE <<>>

(* quote!: the three impl items, each naming the type and the id field *)
quote(name, id_field) ==
    << [trait |-> "PartialEq", for |-> name, fn |-> "eq",
        self_field |-> id_field, op |-> "==", other_field |-> id_field],
       [trait |-> "Eq", for |-> name],
       [trait |-> "Hash", for |-> name, fn |-> "hash", self_field |-> id_field] >>

Pending == [status |-> "pending", msg |-> "", tokens |-> <<>>]

(* Faulty variant: the emitted hash names every field of the struct *)
derive_entity_hash_all(input) ==
    LET name == input.ident
        id_field == find_id_field(input.data)
        all == [i \in DOMAIN input.data.fields.list |-> unwrap(input.data.fields.list[i].ident)]
    IN  IF id_field = <<>>
        THEN [status |-> "panic", msg |-> PanicMsg, tokens |-> <<>>]
        ELSE [status |-> "ok", msg |-> "",
              tokens |-> [quote(name, unwrap(id_field)) EXCEPT ![3] =
                             [trait |-> "Hash", for |-> name, fn |-> "hash", self_field |-> all]]]

derive_entity(input) ==
    LET name == input.ident
        id_field == find_id_field(input.data)
    IN  IF id_field = <<>>
        THEN [status |-> "panic", msg |-> PanicMsg, tokens |-> <<>>]
        ELSE [status |-> "ok", msg |-> "", tokens |-> quote(name, unwrap(id_field))]

----------------------------------------------------------------------------
(* SpecAttr *)

AttrIdle == /\ attrs = <<>>
            /\ matched = [done |-> FALSE, value |-> FALSE]

HostIdle == /\ inputs = <<>>
            /\ outcome = <<>>

RunIdle == /\ entity = [input |-> <<>>, tokens |-> <<>>]
           /\ idKind = "int"

EqIdle == /\ objs = <<>>
          /\ cmp = [done |-> FALSE, r |-> <<>>]
          /\ hs = [done |-> FALSE, r |-> <<>>]

MapIdle == /\ seed = 0
           /\ map = <<>>
           /\ last = [op |-> "none"]

InitAttr ==
    /\ attrs \in SeqsUpTo(AttrKinds, MaxAttrs)
    /\ matched = [done |-> FALSE, value |-> FALSE]
    /\ HostIdle /\ RunIdle /\ EqIdle /\ MapIdle

CheckField ==
    /\ ~matched.done
    /\ matched' = [done |-> TRUE, value |-> has_dervy_id_attribute(attrs)]
    /\ UNCHANGED <<attrs, hostVars, runVars, eqVars, mapVars>>

NextAttr == CheckField

SpecAttr == InitAttr /\ [][NextAttr]_vars

----------------------------------------------------------------------------
(* Spec: the compiler expands each #[derive(Entity)] once, in any order *)

Init ==
    /\ \/ inputs \in [1..1 -> DeriveInputs(FieldAttrs, MaxFields)]
       \/ \E n \in 2..MaxTypes : inputs \in [1..n -> CrateInputs]
    /\ outcome = [i \in DOMAIN inputs |-> Pending]
    /\ AttrIdle /\ RunIdle /\ EqIdle /\ MapIdle

(* Faulty variant: a panic ends every invocation still pending *)
Invoke_abort(i) ==
    /\ outcome[i].status = "pending"
    /\ outcome' = IF derive_entity(inputs[i]).status = "panic"
                  THEN [j \in DOMAIN outcome |->
                           IF outcome[j].status = "pending" THEN derive_entity(inputs[i])
                           ELSE outcome[j]]
                  ELSE [outcome EXCEPT ![i] = derive_entity(inputs[i])]
    /\ UNCHANGED <<inputs, attrVars, runVars, eqVars, mapVars>>

Invoke(i) ==
    /\ outcome[i].status = "pending"
    /\ outcome' = [outcome EXCEPT ![i] = derive_entity(inputs[i])]
    /\ UNCHANGED <<inputs, attrVars, runVars, eqVars, mapVars>>

Next == \E i \in DOMAIN inputs : Invoke(i)

Spec == Init /\ [][Next]_vars

----------------------------------------------------------------------------
(* The generated impls at run time *)

(* The struct definitions the run-time specifications instantiate: named    *)
(* structs of one or two fields for which the derive emits code.            *)
EntityInputs ==
    {[ident |-> "A", data |-> DataStruct(Fields("Named", l))] :
        l \in {<<m(1)>>, <<m(1), u(2)>>, <<u(1), m(2)>>, <<m(1), m(2)>>}}

Entities == {[input |-> x, tokens |-> derive_entity(x).tokens] : x \in EntityInputs}

FieldsOf(input) ==
    {unwrap(input.data.fields.list[k].ident) : k \in DOMAIN input.data.fields.list}

(* Instances of the struct with every field drawn from 0..n *)
Instances(input, n) == [FieldsOf(input) -> 0..n]

(* The id field's own ==.  int: an integer.  caseless: an identifier        *)
(* compared without case, 2k and 2k+1 being the two spellings of one name.  *)
(* float: a float whose value 0 stands for NaN, unequal to itself.          *)
IdKinds == {"int", "caseless", "float"}
HashKinds == {"int", "caseless"}      \* float has no Hash impl

FieldEq(kind, x, y) ==
    CASE kind = "int" -> x = y
      [] kind = "caseless" -> (x \div 2) = (y \div 2)
      [] kind = "float" -> x = y /\ x # 0

(* Hasher::write of one word into the hasher's state *)
HasherStates == 0..(HashMod - 1)

write(state, word) == (state * 31 + word + 1) % HashMod

(* The id field's own Hash::hash *)
FieldHash(kind, x, state) ==
    CASE kind = "int" -> write(state, x)
      [] kind = "caseless" -> write(state, x \div 2)

impl_of(tokens, trait) == tokens[CHOOSE k \in DOMAIN tokens : tokens[k].trait = trait]

(* Faulty variant: structural equality over every field *)
eq_all(tokens, kind, self, other) ==
    \A f \in DOMAIN self : FieldEq(kind, self[f], other[f])

(* Faulty variant: compares the id field with the other's first field *)
eq_mixed(tokens, kind, self, other) ==
    FieldEq(kind, self[impl_of(tokens, "PartialEq").self_field], other[FieldNames[1]])

(* The emitted PartialEq::eq: self.#id_field == other.#id_field *)
eq(tokens, kind, self, other) ==
    LET im == impl_of(tokens, "PartialEq")
    IN  FieldEq(kind, self[im.self_field], other[im.other_field])

(* Faulty variant: every field is hashed, in declaration order *)
RECURSIVE hash_from(_, _, _, _)
hash_from(kind, self, state, i) ==
    IF i > Len(FieldNames) THEN state
    ELSE IF FieldNames[i] \in DOMAIN self
         THEN hash_from(kind, self, FieldHash(kind, self[FieldNames[i]], state), i + 1)
         ELSE hash_from(kind, self, state, i + 1)

hash_all(tokens, kind, self, state) == hash_from(kind, self, state, 1)

(* The emitted Hash::hash: self.#id_field.hash(state) *)
hash(tokens, kind, self, state) ==
    LET im == impl_of(tokens, "Hash")
    IN  FieldHash(kind, self[im.self_field], state)

----------------------------------------------------------------------------
(* SpecEq: == and hash called on three instances *)

InitEq ==
    /\ entity \in Entities
    /\ idKind \in IdKinds
    /\ objs \in [1..3 -> Instances(entity.input, MaxVal)]
    /\ cmp = [done |-> FALSE, r |-> <<>>]
    /\ hs = [done |-> FALSE, r |-> <<>>]
    /\ AttrIdle /\ HostIdle /\ MapIdle

Compare ==
    /\ ~cmp.done
    /\ cmp' = [done |-> TRUE,
               r |-> [i \in 1..3 |-> [j \in 1..3 |->
                         eq(entity.tokens, idKind, objs[i], objs[j])]]]
    /\ UNCHANGED <<objs, hs, runVars, attrVars, hostVars, mapVars>>

HashAll ==
    /\ ~hs.done
    /\ idKind \in HashKinds
    /\ hs' = [done |-> TRUE,
              r |-> [i \in 1..3 |-> [s \in HasherStates |->
                        hash(entity.tokens, idKind, objs[i], s)]]]
    /\ UNCHANGED <<objs, cmp, runVars, attrVars, hostVars, mapVars>>

NextEq == Compare \/ HashAll

SpecEq == InitEq /\ [][NextEq]_vars

----------------------------------------------------------------------------
(* SpecMap: std::collections::HashMap<Entity, bool> *)

Values == BOOLEAN

hash_one(tokens, kind, key) == hash(tokens, kind, key, seed)

bucket_of(tokens, kind, key) == hash_one(tokens, kind, key) % NumBuckets

(* The positions in the key's bucket whose stored key == the key *)
find(tokens, kind, key) ==
    {k \in DOMAIN map[bucket_of(tokens, kind, key)] :
        eq(tokens, kind, map[bucket_of(tokens, kind, key)][k].key, key)}

First(S) == CHOOSE k \in S : \A l \in S : k <= l

InitMap ==
    /\ entity \in Entities
    /\ idKind \in HashKinds
    /\ seed \in HasherStates
    /\ map = [b \in 0..(NumBuckets - 1) |-> <<>>]
    /\ last = [op |-> "none"]
    /\ AttrIdle /\ HostIdle /\ EqIdle

(* HashMap::insert: an equal key already stored keeps its place and its     *)
(* key and takes the new value; the old value is returned.                  *)
insert(key, value) ==
    LET b == bucket_of(entity.tokens, idKind, key)
        hit == find(entity.tokens, idKind, key)
    IN  /\ IF hit = {}
           THEN /\ map' = [map EXCEPT ![b] = Append(@, [key |-> key, value |-> value])]
                /\ last' = [op |-> "insert", key |-> key, value |-> value, res |-> <<>>]
           ELSE /\ map' = [map EXCEPT ![b][First(hit)].value = value]
                /\ last' = [op |-> "insert", key |-> key, value |-> value,
                            res |-> <<map[b][First(hit)].value>>]
        /\ UNCHANGED <<seed, runVars, attrVars, hostVars, eqVars>>

(* HashMap::get_key_value: the stored entry whose key == the key, if any *)
get(key) ==
    LET b == bucket_of(entity.tokens, idKind, key)
        hit == find(entity.tokens, idKind, key)
    IN  /\ last' = [op |-> "get", key |-> key,
                    res |-> IF hit = {} THEN <<>> ELSE <<map[b][First(hit)]>>]
        /\ UNCHANGED <<seed, map, runVars, attrVars, hostVars, eqVars>>

NextMap ==
    \/ \E key \in Instances(entity.input, MaxKey), value \in Values : insert(key, value)
    \/ \E key \in Instances(entity.input, MaxKey) : get(key)

SpecMap == InitMap /\ [][NextMap]_vars

----------------------------------------------------------------------------
(* What the claims speak of, stated without the scanner's loop *)

IsMarker(a) == a.path = <<"dervy">> /\ a.delim /\ a.tokens = <<Tok("ident", "id")>>

Marked(field) == \E k \in DOMAIN field.attrs : IsMarker(field.attrs[k])

IsNamedStruct(input) ==
    input.data.kind = "Struct" /\ input.data.fields.style = "Named"

MarkedIdx(input) ==
    {k \in DOMAIN input.data.fields.list : Marked(input.data.fields.list[k])}

Earliest(S) == CHOOSE k \in S : \A l \in S : k <= l

Done(i) == outcome[i].status # "pending"

(* Every reference the emitted items make to a field *)
FieldsUsed(tokens) ==
    {tokens[1].self_field, tokens[1].other_field, tokens[3].self_field}

Perms(n) == {p \in [1..n -> 1..n] : \A x, y \in 1..n : p[x] = p[y] => x = y}

(* C9: a field matches exactly when one of its attributes is dervy with the *)
(* single identifier id as its argument; the result is a plain boolean for  *)
(* every attribute list, and reordering the attributes never changes it.    *)
C9_MatchExactlyMarker ==
    matched.done =>
        /\ matched.value \in BOOLEAN
        /\ matched.value = (\E k \in DOMAIN attrs : IsMarker(attrs[k]))
        /\ \A p \in Perms(Len(attrs)) :
               has_dervy_id_attribute([k \in DOMAIN attrs |-> attrs[p[k]]]) = matched.value

C9_Witness ==
    /\ matched.done /\ matched.value
    /\ Len(attrs) >= 2
    /\ attrs[1] \in {DervyName, DervyBare, DervyEmpty, DervyLit, DervyTwo, SerdeId}
    /\ attrs[Len(attrs)] = DervyId

(* C3: for a named-field struct with at least one marked field, generation  *)
(* succeeds and every emitted item refers to the earliest marked field.     *)
C3_FirstMarkedWins ==
    \A i \in DOMAIN inputs :
        (Done(i) /\ IsNamedStruct(inputs[i]) /\ MarkedIdx(inputs[i]) # {}) =>
            /\ outcome[i].status = "ok"
            /\ outcome[i].msg = ""
            /\ FieldsUsed(outcome[i].tokens)
                 = {FieldNames[Earliest(MarkedIdx(inputs[i]))]}

C3_Witness ==
    \E i \in DOMAIN inputs :
        /\ Done(i) /\ IsNamedStruct(inputs[i])
        /\ Cardinality(MarkedIdx(inputs[i])) >= 2
        /\ outcome[i].status = "ok"

(* C4: a named-field struct with no marked field (or no field at all) ends  *)
(* in the panic with the fixed message and emits no tokens.                 *)
C4_NoMarkerPanics ==
    \A i \in DOMAIN inputs :
        (Done(i) /\ IsNamedStruct(inputs[i]) /\ MarkedIdx(inputs[i]) = {}) =>
            outcome[i] = [status |-> "panic", msg |-> PanicMsg, tokens |-> <<>>]

C4_Witness ==
    \E i \in DOMAIN inputs :
        /\ Done(i) /\ IsNamedStruct(inputs[i])
        /\ Len(inputs[i].data.fields.list) = MaxFields
        /\ \A k \in DOMAIN inputs[i].data.fields.list :
               inputs[i].data.fields.list[k].attrs \in {<<DervyName>>, <<DervyTwo>>}
        /\ outcome[i].status = "panic"

(* C5: a type that is not a struct with named fields gets the outcome of    *)
(* the struct with no fields, marker or not, and emits no tokens.           *)
ZeroMatch(name) == [ident |-> name, data |-> DataStruct(Fields("Named", <<>>))]

HasMarkedField(input) ==
    IF input.data.kind = "Enum"
    THEN \E v \in DOMAIN input.data.variants :
             \E k \in DOMAIN input.data.variants[v].fields.list :
                 Marked(input.data.variants[v].fields.list[k])
    ELSE \E k \in DOMAIN input.data.fields.list : Marked(input.data.fields.list[k])

C5_OtherShapesRejected ==
    \A i \in DOMAIN inputs :
        (Done(i) /\ ~IsNamedStruct(inputs[i])) =>
            /\ outcome[i] = derive_entity(ZeroMatch(inputs[i].ident))
            /\ outcome[i].status = "panic"
            /\ outcome[i].tokens = <<>>

C5_Witness ==
    \E i \in DOMAIN inputs :
        /\ Done(i) /\ inputs[i].data.kind = "Union"
        /\ HasMarkedField(inputs[i])
        /\ outcome[i].status = "panic"

(* C7: two invocations on the same input end in the same outcome, and two   *)
(* successful ones on types of the same name whose earliest marked field    *)
(* has the same name emit the same tokens.                                  *)
C7_Deterministic ==
    \A i, j \in DOMAIN inputs :
        (Done(i) /\ Done(j)) =>
            /\ inputs[i] = inputs[j] => outcome[i] = outcome[j]
            /\ ( /\ IsNamedStruct(inputs[i]) /\ IsNamedStruct(inputs[j])
                 /\ MarkedIdx(inputs[i]) # {} /\ MarkedIdx(inputs[j]) # {}
                 /\ inputs[i].ident = inputs[j].ident
                 /\ Earliest(MarkedIdx(inputs[i])) = Earliest(MarkedIdx(inputs[j])) )
               => outcome[i].tokens = outcome[j].tokens

C7_Witness ==
    \E i, j \in DOMAIN inputs :
        /\ i # j /\ Done(i) /\ Done(j)
        /\ inputs[i] # inputs[j]
        /\ inputs[i].ident = inputs[j].ident
        /\ outcome[i].status = "ok"
        /\ outcome[i].tokens = outcome[j].tokens

(* C8: whatever the order of the invocations, each finished invocation has  *)
(* the outcome its own input gives when run alone, and an invocation not    *)
(* yet run is untouched by the others, panics included.                     *)
C8_Independent ==
    \A i \in DOMAIN inputs :
        IF Done(i) THEN outcome[i] = derive_entity(inputs[i]) ELSE outcome[i] = Pending

C8_Witness ==
    \E i, j \in DOMAIN inputs :
        /\ outcome[i].status = "panic"
        /\ outcome[j].status = "ok"

(* The name of the struct's identity field: its earliest marked field *)
IdName == FieldNames[Earliest(MarkedIdx(entity.input))]

IdOf(obj) == obj[IdName]

(* C1: the derived == of two instances is true exactly when their identity  *)
(* fields are equal under the field's own ==, whatever the other fields.    *)
C1_EqIffIdEq ==
    cmp.done =>
        \A i, j \in 1..3 :
            cmp.r[i][j] = FieldEq(idKind, IdOf(objs[i]), IdOf(objs[j]))

C1_Witness ==
    /\ cmp.done
    /\ objs[1] # objs[2] /\ IdOf(objs[1]) = IdOf(objs[2]) /\ cmp.r[1][2]
    /\ \A f \in DOMAIN objs[1] : f # IdName => objs[1][f] = objs[3][f]
    /\ ~cmp.r[1][3]

(* C2: from every starting hasher state the derived hash leaves the state   *)
(* that hashing the identity field alone leaves, so instances with equal    *)
(* identity fields, and instances that are ==, hash alike.                  *)
C2_HashIsIdHash ==
    hs.done =>
        /\ \A i \in 1..3, s \in HasherStates :
               hs.r[i][s] = FieldHash(idKind, IdOf(objs[i]), s)
        /\ \A i, j \in 1..3 :
               FieldEq(idKind, IdOf(objs[i]), IdOf(objs[j])) => hs.r[i] = hs.r[j]
        /\ cmp.done => \A i, j \in 1..3 : cmp.r[i][j] => hs.r[i] = hs.r[j]

C2_Witness ==
    /\ hs.done /\ cmp.done
    /\ idKind = "caseless"
    /\ IdOf(objs[1]) # IdOf(objs[2])
    /\ \E f \in DOMAIN objs[1] : f # IdName /\ (objs[1][f] \div 2) # (objs[2][f] \div 2)
    /\ cmp.r[1][2]
    /\ hs.r[1] = hs.r[2]
    /\ ~cmp.r[1][3]

(* C10: the Eq impl is emitted for every struct, and when the identity      *)
(* field's own == is an equivalence relation the derived == is reflexive,   *)
(* symmetric and transitive.                                                *)
IsEquivalence(kind, n) ==
    /\ \A x \in 0..n : FieldEq(kind, x, x)
    /\ \A x, y \in 0..n : FieldEq(kind, x, y) => FieldEq(kind, y, x)
    /\ \A x, y, z \in 0..n : (FieldEq(kind, x, y) /\ FieldEq(kind, y, z)) => FieldEq(kind, x, z)

C10_EqIsEquivalence ==
    cmp.done =>
        /\ \E k \in DOMAIN entity.tokens :
               entity.tokens[k] = [trait |-> "Eq", for |-> entity.input.ident]
        /\ IsEquivalence(idKind, MaxVal) =>
               /\ \A i \in 1..3 : cmp.r[i][i]
               /\ \A i, j \in 1..3 : cmp.r[i][j] => cmp.r[j][i]
               /\ \A i, j, k \in 1..3 : (cmp.r[i][j] /\ cmp.r[j][k]) => cmp.r[i][k]

C10_Witness ==
    /\ cmp.done
    /\ idKind = "caseless"
    /\ objs[1] # objs[2] /\ objs[2] # objs[3] /\ objs[1] # objs[3]
    /\ IdOf(objs[1]) # IdOf(objs[2])
    /\ cmp.r[1][2] /\ cmp.r[2][3] /\ cmp.r[1][3]

(* C6: a lookup returns the stored entry whose key has the same identity    *)
(* value as the lookup key, whatever the other fields of either, and never  *)
(* an entry of another identity value; an insert under an identity value    *)
(* not yet stored stores the inserted key and value themselves.             *)
Entries == UNION {{map[b][k] : k \in DOMAIN map[b]} : b \in DOMAIN map}

SameId(x, y) == FieldEq(idKind, IdOf(x), IdOf(y))

C6_LookupByIdentity ==
    /\ last.op = "get" =>
           \A e \in Entries :
               /\ SameId(e.key, last.key) => last.res = <<e>>
               /\ ~SameId(e.key, last.key) => last.res # <<e>>
    /\ last.op = "insert" =>
           /\ \E e \in Entries : SameId(e.key, last.key) /\ e.value = last.value
           /\ last.res = <<>> => [key |-> last.key, value |-> last.value] \in Entries

C6_Witness ==
    /\ last.op = "get"
    /\ last.res # <<>>
    /\ last.res[1].key # last.key
    /\ Cardinality(Entries) >= 2

====
